---- MODULE Spec2Model ----
(***************************************************************************)
(* Kidney matching program v0.01 (src/kidney_match_v0.01.py).              *)
(*                                                                         *)
(* The state is the state of the GUI event loop: the option flags, the     *)
(* data loaded by read_csv, the last matching (row_ind, col_ind), the      *)
(* results table and total shown in the window, and the result files       *)
(* written by print_mapping.  Each event handler is one action.            *)
(*                                                                         *)
(* Python lists and numpy arrays are functions on 0..n-1, as in the code.  *)
(* CSV fields and written numbers are digit sequences: int() and str()     *)
(* are modelled by what they compute.                                      *)
(*                                                                         *)
(* The two library solvers (scipy linear_sum_assignment, networkx          *)
(* max_weight_matching) are not part of the repository.  Each is the set   *)
(* of answers its documented contract allows, and the call picks any of    *)
(* them.  Edge weights are halves of integers; the model keeps twice the   *)
(* weight, which orders matchings exactly as the weight does.              *)
(*                                                                         *)
(* SpecAssign and SpecExchange are one solve request each, to the          *)
(* multi-way and to the pairwise model, over all input files within the    *)
(* bounds.  Spec is the event loop itself, with every order of events,     *)
(* over a few input files.                                                 *)
(*                                                                         *)
(* Both solvers are deterministic, but which of several optimal answers    *)
(* they return is not specified.  In Spec the choice is fixed for the      *)
(* whole run by tie; in the two request specifications every call may      *)
(* return any optimal answer.                                              *)
(***************************************************************************)
EXTENDS Integers, Sequences, FiniteSets

\* ------------------------------------------------------------------ bounds
\* Largest n for which every n x n score matrix is a possible input file.
MaxN == 3
\* Largest score written in an input file.
MaxVal == 2
\* Number of tie-breaking rules of the solvers that Spec tries.
MaxTie == 2

VARIABLES
    file_open_flag,     \* line 282
    average_flag,       \* line 283
    zero_out_flag,      \* line 284
    matching_option,    \* line 285
    results_flag,       \* line 286
    fname,              \* lines 315, 407: the file last opened, or the save location
    patient_list,       \* line 333
    donor_list,
    matrix,
    inverted,
    max_score,
    row_ind,            \* lines 360, 363
    col_ind,
    call,               \* the solver call of the last RUN MATCHING: its arguments, G and M
    results_matrix,     \* line 387: the rows shown in the results table
    total_match_score,  \* line 389: the total shown
    disk,               \* the result files written by print_mapping, by path
    values,             \* lines 200-216: the option widgets of the window, as Read() returns them
    ran,                \* the loaded data and options that the last RUN MATCHING computed from
    tie,                \* which of several optimal answers the solvers return
    running             \* lines 289-295: the event loop has not ended

vars == <<file_open_flag, average_flag, zero_out_flag, matching_option, results_flag,
          fname, patient_list, donor_list, matrix, inverted, max_score,
          row_ind, col_ind, call, results_matrix, total_match_score, disk,
          values, ran, tie, running>>

\* ----------------------------------------------------------------- helpers
Range0(n) == 0 .. (n - 1)

Abs(x) == IF x < 0 THEN -x ELSE x

RECURSIVE SumOver(_, _)
\* sum of f[x] over the finite set S
SumOver(f, S) ==
    IF S = {} THEN 0
    ELSE LET x == CHOOSE y \in S : TRUE IN f[x] + SumOver(f, S \ {x})

\* ---------------------------------------------------- int() and str()
RECURSIVE ToInt(_)
\* int(s) for a field of decimal digits
ToInt(s) ==
    IF Len(s) = 0 THEN 0
    ELSE 10 * ToInt(SubSeq(s, 1, Len(s) - 1)) + s[Len(s)]

RECURSIVE ToStr(_)
\* str(k) for k >= 0, as the sequence of its decimal digits
ToStr(k) ==
    IF k < 10 THEN <<k>>
    ELSE Append(ToStr(k \div 10), k % 10)

\* --------------------------------------------------------- input files
\* A file is its path, its header line and its data lines, each line already
\* split at the commas: line[0] is the label, line[j] the j-th score field.
\* The format is that of create_test_data.py.
Blank == << >>

PatientLabel(j) == <<"patient", j + 1>>
DonorLabel(i) == <<"donor", i + 1>>

InPath == <<"test", ".csv">>
NoPath == << >>

\* values['_file_'] when nothing was browsed
NoFile == [path |-> NoPath, header |-> << >>, lines |-> << >>]

MkFile(n, cells) ==
    [path   |-> InPath,
     header |-> [j \in 0 .. n |-> IF j = 0 THEN Blank ELSE PatientLabel(j - 1)],
     lines  |-> [i \in Range0(n) |->
                   [j \in 0 .. n |-> IF j = 0 THEN DonorLabel(i) ELSE cells[i][j - 1]]]]

NumFields == {ToStr(v) : v \in 0 .. MaxVal}

\* Every n x n matrix of score fields for n <= MaxN; below MaxN a field may
\* also be blank.
Fields(n) == IF n < MaxN THEN NumFields \cup {Blank} ELSE NumFields
FullCells(n) == [Range0(n) -> [Range0(n) -> Fields(n)]]

\* The n x n matrices whose diagonal (the original pairs) holds one score d.
\* pairwise_match reads the diagonal only through max_score, so these give it
\* every off-diagonal matrix with every max_score it can come with.
OffDiagonal(n) == {p \in Range0(n) \X Range0(n) : p[1] # p[2]}
DiagonalCells(n) ==
    {[i \in Range0(n) |-> [j \in Range0(n) |-> IF i = j THEN d ELSE c[<<i, j>>]]] :
       d \in NumFields, c \in [OffDiagonal(n) -> NumFields]}

\* Matrices with MaxN + 1 pairs in which only neighbouring pairs (|i - j| = 1)
\* can have a nonzero score, the rest being 0 as written by create_test_data.py.
ChainN == MaxN + 1
ChainPairs == {p \in Range0(ChainN) \X Range0(ChainN) : Abs(p[1] - p[2]) = 1}
ChainCells ==
    {[i \in Range0(ChainN) |-> [j \in Range0(ChainN) |->
         IF <<i, j>> \in ChainPairs THEN c[<<i, j>>] ELSE ToStr(0)]] :
       c \in [ChainPairs -> NumFields]}

\* The matrices given to the pairwise model.
ExchangeCells(n) ==
    IF n < MaxN THEN FullCells(n)
    ELSE IF n = MaxN THEN DiagonalCells(n)
    ELSE ChainCells

\* A file whose last data line is cut short.
CutFile ==
    LET f == MkFile(2, [i \in Range0(2) |-> [j \in Range0(2) |-> ToStr(1)]])
    IN  [f EXCEPT !.lines = [i \in Range0(2) |->
                               IF i = 1 THEN [j \in 0 .. 1 |-> f.lines[1][j]]
                               ELSE f.lines[i]]]

\* ------------------------------------------------------------ read_csv
\* n = len(patient_list) after the header's first field is popped
NumPairs(f) == Cardinality(DOMAIN f.header) - 1

\* The field read at temp_list[j] of line i, blanks already replaced by 0
\* (lines 59-60); int() of it is taken at lines 63 and 70.
FieldInt(f, i, j) ==
    LET field == f.lines[i][j] IN IF field = Blank THEN 0 ELSE ToInt(field)

\* readline() past the end of the file gives one empty field, and reading
\* temp_list[j] beyond a line's fields raises IndexError.
Readable(f) ==
    /\ NumPairs(f) >= 0
    /\ \A i \in Range0(NumPairs(f)) :
          /\ i \in DOMAIN f.lines
          /\ \A j \in 0 .. NumPairs(f) : j \in DOMAIN f.lines[i]

\* the largest element of a finite nonempty set of integers
Max(S) == CHOOSE x \in S : \A y \in S : y <= x

\* lines 57-66 with max_score started again at 0 on every line
ScanRowPerLine(f, i, j, ms) == Max({0} \cup {FieldInt(f, i, jj) : jj \in 1 .. j})

\* lines 57-66: max_score after fields 1..j of line i were stored, starting
\* from max_score ms: each larger field replaces it
ScanRow(f, i, j, ms) == Max({ms} \cup {FieldInt(f, i, jj) : jj \in 1 .. j})

RECURSIVE MaxScoreAfter(_, _)
\* lines 46, 52-66: max_score after k data lines
MaxScoreAfter(f, k) ==
    IF k = 0 THEN 0
    ELSE ScanRow(f, k - 1, NumPairs(f), MaxScoreAfter(f, k - 1))

\* lines 57-63: row i of matrix
MatrixRow(f, i) == [j \in Range0(NumPairs(f)) |-> FieldInt(f, i, j + 1)]

\* lines 69-70 with the sign of the difference turned round
InvertedRowNegated(f, i, before) ==
    LET ms == ScanRow(f, i, NumPairs(f), before)
    IN  [j \in Range0(NumPairs(f)) |-> FieldInt(f, i, j + 1) - ms]

\* lines 69-70 run before the line's scores were compared with max_score
InvertedRowBeforeScan(f, i, before) ==
    [j \in Range0(NumPairs(f)) |-> before - FieldInt(f, i, j + 1)]

\* lines 57-70: row i of inverted, where max_score was `before` when line i was
\* read; the row is filled after the whole line was compared with max_score
InvertedRow(f, i, before) ==
    LET ms == ScanRow(f, i, NumPairs(f), before)
    IN  [j \in Range0(NumPairs(f)) |-> ms - FieldInt(f, i, j + 1)]

\* lines 46-70: the locals of read_csv after k data lines; the rows not yet
\* read are the zeros of np.zeros
ReadLoop(f, k) ==
    LET n == NumPairs(f)
    IN  [max_score  |-> MaxScoreAfter(f, k),
         donor_list |-> [i \in Range0(k) |-> f.lines[i][0]],
         matrix     |-> [i \in Range0(n) |->
                           IF i < k THEN MatrixRow(f, i) ELSE [j \in Range0(n) |-> 0]],
         inverted   |-> [i \in Range0(n) |->
                           IF i < k THEN InvertedRow(f, i, MaxScoreAfter(f, i))
                           ELSE [j \in Range0(n) |-> 0]]]

\* lines 32-74
read_csv(f) ==
    LET n == NumPairs(f)
        s == ReadLoop(f, n)
    IN  [patient_list |-> [j \in Range0(n) |-> f.header[j + 1]],
         donor_list   |-> s.donor_list,
         matrix       |-> s.matrix,
         inverted     |-> s.inverted,
         max_score    |-> s.max_score]

\* ------------------------------------------------------------------- state
NoCall == [solver |-> "none"]
NoRun == << >>

\* tie when a solver call may return any of its optimal answers
AnyAnswer == -1

Init ==
    /\ file_open_flag = FALSE
    /\ average_flag = TRUE
    /\ zero_out_flag = FALSE
    /\ matching_option = "pairwise"
    /\ results_flag = FALSE
    /\ fname = NoFile
    /\ patient_list = << >>
    /\ donor_list = << >>
    /\ matrix = << >>
    /\ inverted = << >>
    /\ max_score = 0
    /\ row_ind = << >>
    /\ col_ind = << >>
    /\ call = NoCall
    /\ results_matrix = << >>
    /\ total_match_score = 0
    /\ disk = << >>
    /\ values = [average |-> TRUE, zero |-> FALSE, option |-> "pairwise"]
    /\ ran = NoRun
    /\ running = TRUE

loaded == <<patient_list, donor_list, matrix, inverted, max_score>>
options == <<average_flag, zero_out_flag, matching_option>>
results == <<row_ind, col_ind, call, results_matrix, total_match_score, results_flag, ran>>

\* Each option widget has change_submits=True: a click changes the widget and
\* is read as the widget's event.

\* lines 298-299 with the flag set instead of negated
AverageSet ==
    /\ values' = [values EXCEPT !.average = ~@]
    /\ average_flag' = TRUE
    /\ UNCHANGED <<file_open_flag, zero_out_flag, matching_option, fname, loaded, results,
                   disk, tie, running>>

\* lines 205-208, 298-299: a click on 'Use average'
Average ==
    /\ values' = [values EXCEPT !.average = ~@]
    /\ average_flag' = ~average_flag
    /\ UNCHANGED <<file_open_flag, zero_out_flag, matching_option, fname, loaded, results,
                   disk, tie, running>>

\* lines 209-212, 302-303: a click on "Don't add edges with zero weight"
Zero ==
    /\ values' = [values EXCEPT !.zero = ~@]
    /\ zero_out_flag' = ~zero_out_flag
    /\ UNCHANGED <<file_open_flag, average_flag, matching_option, fname, loaded, results,
                   disk, tie, running>>

\* lines 200-204, 306-307: a click on the radio 'Pair-wise matching'
Pairwise ==
    /\ values' = [values EXCEPT !.option = "pairwise"]
    /\ matching_option' = "pairwise"
    /\ UNCHANGED <<file_open_flag, average_flag, zero_out_flag, fname, loaded, results,
                   disk, tie, running>>

\* lines 213-216, 309-310: a click on the radio 'Multi-way matching'
MultiWay ==
    /\ values' = [values EXCEPT !.option = "multi-way"]
    /\ matching_option' = "multi-way"
    /\ UNCHANGED <<file_open_flag, average_flag, zero_out_flag, fname, loaded, results,
                   disk, tie, running>>

\* lines 314-342 without line 337
OpenKeepsFlag(f) ==
    /\ fname' = f
    /\ IF f.path = NoPath
       THEN UNCHANGED <<file_open_flag, loaded>>
       ELSE IF Readable(f)
            THEN LET r == read_csv(f)
                 IN  /\ patient_list' = r.patient_list
                     /\ donor_list' = r.donor_list
                     /\ matrix' = r.matrix
                     /\ inverted' = r.inverted
                     /\ max_score' = r.max_score
                     /\ file_open_flag' = TRUE
            ELSE UNCHANGED <<file_open_flag, loaded>>
    /\ UNCHANGED <<options, results, disk, values, tie, running>>

\* lines 314-342: the _open_ event with values['_file_'] = f
Open(f) ==
    /\ fname' = f
    /\ IF f.path = NoPath
       THEN UNCHANGED <<file_open_flag, loaded>>
       ELSE IF Readable(f)
            THEN LET r == read_csv(f)
                 IN  /\ patient_list' = r.patient_list
                     /\ donor_list' = r.donor_list
                     /\ matrix' = r.matrix
                     /\ inverted' = r.inverted
                     /\ max_score' = r.max_score
                     /\ file_open_flag' = TRUE
            ELSE /\ file_open_flag' = FALSE
                 /\ UNCHANGED loaded
    /\ UNCHANGED <<options, results, disk, values, tie, running>>

\* ------------------------------------------------------- pairwise_match
\* An exchange graph is its node set and the weight of each edge <<i, j>>, i < j,
\* kept as twice the weight (weight2): nx.Graph holds one edge per node pair.

\* line 96 with "and" between the two comparisons with zero
DroppedBothZero(m, zero_out, i, j) == zero_out /\ (m[i][j] = 0 /\ m[j][i] = 0)

\* line 96 without the test of zero_out
DroppedAlways(m, zero_out, i, j) == m[i][j] = 0 \/ m[j][i] = 0

\* line 96: the pair i, j gets no edge
Dropped(m, zero_out, i, j) == zero_out /\ (m[i][j] = 0 \/ m[j][i] = 0)

\* lines 105-111 without abs()
EdgeWeight2Signed(m, ms, regular, i, j) ==
    IF regular THEN m[i][j] + m[j][i]
    ELSE (m[i][j] + m[j][i]) * (ms - (m[i][j] - m[j][i]))

\* lines 105-111: twice the score of the edge i, j (average = sum / 2)
EdgeWeight2(m, ms, regular, i, j) ==
    IF regular THEN m[i][j] + m[j][i]
    ELSE (m[i][j] + m[j][i]) * (ms - Abs(m[i][j] - m[j][i]))

\* lines 93-113
ExchangeGraph(m, ms, regular, zero_out) ==
    LET n == Cardinality(DOMAIN m)
        E == {e \in Range0(n - 1) \X Range0(n) :
                e[1] < e[2] /\ ~Dropped(m, zero_out, e[1], e[2])}
    IN  [nodes   |-> {e[1] : e \in E} \cup {e[2] : e \in E},
         weight2 |-> [e \in E |-> EdgeWeight2(m, ms, regular, e[1], e[2])]]

\* the sets of pairwise disjoint edges of G
Matchings(G) ==
    {M \in SUBSET (DOMAIN G.weight2) :
        \A e1, e2 \in M : e1 # e2 => {e1[1], e1[2]} \cap {e2[1], e2[2]} = {}}

MatchingWeight2(G, M) == SumOver(G.weight2, M)

\* the same pairs, each written (u, v) or (v, u)
Orientations(M) ==
    {{IF flip[e] THEN <<e[2], e[1]>> ELSE e : e \in M} : flip \in [M -> BOOLEAN]}

\* networkx max_weight_matching(G, maxcardinality): every answer its contract
\* allows, a matching of maximum weight, taken among the matchings of maximum
\* cardinality when maxcardinality is set; the pairs come as tuples either way round.
max_weight_matching(G, maxcardinality) ==
    LET all  == Matchings(G)
        size == Max({Cardinality(M) : M \in all})
        pool == IF maxcardinality THEN {M \in all : Cardinality(M) = size} ELSE all
        top  == Max({MatchingWeight2(G, M) : M \in pool})
        best == {M \in pool : MatchingWeight2(G, M) = top}
    IN  UNION {Orientations(M) : M \in best}

\* line 115 with maxcardinality left at its default
MatchingOfAnyCardinality(G) == max_weight_matching(G, FALSE)

\* line 115
Matching(G) == max_weight_matching(G, TRUE)

\* lines 119-122 without the second assignment
ColIndOneWay(n, M) ==
    [i \in Range0(n) |->
        IF \E p \in M : p[1] = i THEN (CHOOSE p \in M : p[1] = i)[2]
        ELSE -1]

\* lines 119-122: col_ind from the pairs of M, -1 for unmatched
ColInd(n, M) ==
    [i \in Range0(n) |->
        IF \E p \in M : p[1] = i THEN (CHOOSE p \in M : p[1] = i)[2]
        ELSE IF \E p \in M : p[2] = i THEN (CHOOSE p \in M : p[2] = i)[1]
        ELSE -1]

\* lines 76-125: every result the call can return, with the graph and matching behind it
pairwise_match(m, ms, regular, zero_out) ==
    LET n == Cardinality(DOMAIN m)
        G == ExchangeGraph(m, ms, regular, zero_out)
    IN  {[row_ind |-> [x \in Range0(n) |-> x],
          col_ind |-> ColInd(n, M),
          call    |-> [solver |-> "pairwise", regular |-> regular, zero_out |-> zero_out,
                       max_score |-> ms, G |-> G, M |-> M]] : M \in Matching(G)}

\* ------------------------------------------------ linear_sum_assignment
Perms(n) ==
    {p \in [Range0(n) -> Range0(n)] : \A i, j \in Range0(n) : i # j => p[i] # p[j]}

\* sum over i of a[i][p[i]]
Along(a, p) == SumOver([i \in DOMAIN p |-> a[i][p[i]]], DOMAIN p)

\* scipy linear_sum_assignment(cost) on a square matrix: every answer its contract
\* allows, row_ind = 0..n-1 and col_ind a permutation of minimum total cost.
linear_sum_assignment(cost) ==
    LET n    == Cardinality(DOMAIN cost)
        all  == Perms(n)
        least == -Max({-Along(cost, q) : q \in all})
    IN  {[row_ind |-> [x \in Range0(n) |-> x],
          col_ind |-> p,
          call    |-> [solver |-> "multi-way", cost |-> cost]] :
            p \in {q \in all : Along(cost, q) = least}}

\* ------------------------------------------------------ RUN MATCHING
\* lines 350-363 with the two branches exchanged
SolveSwapped(option, m, inv, ms, regular, zero_out) ==
    IF option = "pairwise" THEN linear_sum_assignment(inv)
    ELSE pairwise_match(m, ms, regular, zero_out)

\* lines 350-363: the solver call of RUN MATCHING
Solve(option, m, inv, ms, regular, zero_out) ==
    IF option = "pairwise" THEN pairwise_match(m, ms, regular, zero_out)
    ELSE linear_sum_assignment(inv)

None == <<"NONE">>

\* lines 371-381 with the score read at [col][row]
PairListTransposed(m, donors, patients, row, col) ==
    IF col = -1 THEN <<donors[row], None, 0>>
    ELSE <<donors[row], patients[col], m[col][row]>>

\* lines 371-381: one row of the results table
PairList(m, donors, patients, row, col) ==
    IF col = -1 THEN <<donors[row], None, 0>>
    ELSE <<donors[row], patients[col], m[row][col]>>

\* lines 368-384
ResultsMatrix(m, donors, patients, rows, cols) ==
    [i \in DOMAIN rows |-> PairList(m, donors, patients, rows[i], cols[i])]

\* lines 369-382 with each exchange counted at one of its two rows only
TotalMatchScoreOnePerPair(m, rows, cols) ==
    SumOver([i \in DOMAIN rows |-> IF cols[i] <= rows[i] THEN 0 ELSE m[rows[i]][cols[i]]],
            DOMAIN rows)

\* lines 369-382
TotalMatchScore(m, rows, cols) ==
    SumOver([i \in DOMAIN rows |-> IF cols[i] = -1 THEN 0 ELSE m[rows[i]][cols[i]]],
            DOMAIN rows)

\* The order of the optimal answers of one solver call: col_ind read as a
\* number.
ColKey(c) ==
    LET n == Cardinality(DOMAIN c)
    IN  SumOver([i \in DOMAIN c |-> (c[i] + 1) * (n + 1) ^ i], DOMAIN c)

\* The answers a solver call returns out of its optimal answers S: any of
\* them, or under the tie-breaking rule tie the one in place tie of the order.
Answers(S) ==
    IF tie = AnyAnswer THEN S
    ELSE LET cols == {r.col_ind : r \in S}
             nth  == tie % Cardinality(cols)
         IN  {r \in S : Cardinality({c \in cols : ColKey(c) < ColKey(r.col_ind)}) = nth}

\* lines 346-398 with a run that uses up the loaded maximum
RunMatchingInPlace ==
    IF ~file_open_flag
    THEN UNCHANGED vars
    ELSE \E r \in Answers(Solve(matching_option, matrix, inverted, max_score,
                                average_flag, zero_out_flag)) :
            /\ row_ind' = r.row_ind
            /\ col_ind' = r.col_ind
            /\ call' = r.call
            /\ results_matrix' = ResultsMatrix(matrix, donor_list, patient_list,
                                               r.row_ind, r.col_ind)
            /\ total_match_score' = TotalMatchScore(matrix, r.row_ind, r.col_ind)
            /\ results_flag' = TRUE
            /\ ran' = <<loaded, options>>
            /\ max_score' = 0
            /\ UNCHANGED <<file_open_flag, options, fname, patient_list, donor_list,
                           matrix, inverted, disk, values, tie, running>>

\* lines 346-398
RunMatching ==
    IF ~file_open_flag
    THEN UNCHANGED vars
    ELSE \E r \in Answers(Solve(matching_option, matrix, inverted, max_score,
                                average_flag, zero_out_flag)) :
            /\ row_ind' = r.row_ind
            /\ col_ind' = r.col_ind
            /\ call' = r.call
            /\ results_matrix' = ResultsMatrix(matrix, donor_list, patient_list,
                                               r.row_ind, r.col_ind)
            /\ total_match_score' = TotalMatchScore(matrix, r.row_ind, r.col_ind)
            /\ results_flag' = TRUE
            /\ ran' = <<loaded, options>>
            /\ UNCHANGED <<file_open_flag, options, fname, loaded, disk, values, tie, running>>

\* ----------------------------------------------------------------- Save
\* lines 138-147: line k of the file raises IndexError, at donor_list[row] of
\* line 139 or at patient_list[col] and matrix[row][col] of lines 145-147.
\* row is never negative, and col is only an index when it is not -1, so no
\* index counts from the end.
Raises(m, donor_ind, patient_ind, donors, patients, k) ==
    LET row == donor_ind[k - 1]
        col == patient_ind[k - 1]
    IN  \/ row \notin DOMAIN donors
        \/ /\ col # -1
           /\ \/ col \notin DOMAIN patients
              \/ row \notin DOMAIN m
              \/ col \notin DOMAIN m[row]

\* the lines at which print_mapping would raise
RaisedAt(m, donor_ind, patient_ind, donors, patients) ==
    {k \in 1 .. Cardinality(DOMAIN donor_ind) :
        Raises(m, donor_ind, patient_ind, donors, patients, k)}

Min(S) == CHOOSE x \in S : \A y \in S : x <= y

\* lines 127-149: the lines written, each donor,patient,score.  An IndexError
\* ends the writing: the lines before it are in the file, and of its own line
\* the donor, when line 139 wrote it.
print_mapping(m, donor_ind, patient_ind, donors, patients) ==
    LET bad  == RaisedAt(m, donor_ind, patient_ind, donors, patients)
        len  == Cardinality(DOMAIN donor_ind)
        stop == IF bad = {} THEN len + 1 ELSE Min(bad)
        last == IF stop <= len /\ donor_ind[stop - 1] \in DOMAIN donors
                THEN stop ELSE stop - 1
    IN  [k \in 1 .. last |->
            LET row == donor_ind[k - 1]
                col == patient_ind[k - 1]
            IN  IF k = stop THEN <<donors[row]>>
                ELSE IF col = -1 THEN <<donors[row], None, ToStr(0)>>
                ELSE <<donors[row], patients[col], ToStr(m[row][col])>>]

Csv == ".csv"

\* lines 409-410
WithCsv(loc) ==
    IF Len(loc) > 0 /\ loc[Len(loc)] = Csv THEN loc ELSE Append(loc, Csv)

\* the save locations typed by the user
SaveLocations == {<<"out">>, <<"out", Csv>>}

\* lines 405-414 without the test of results_flag
SaveUnguarded(loc) ==
    /\ fname' = [path |-> WithCsv(loc), header |-> << >>, lines |-> << >>]
    /\ disk' = [p \in DOMAIN disk \cup {WithCsv(loc)} |->
                   IF p = WithCsv(loc)
                   THEN print_mapping(matrix, row_ind, col_ind, donor_list, patient_list)
                   ELSE disk[p]]
    /\ running' = (RaisedAt(matrix, row_ind, col_ind, donor_list, patient_list) = {})
    /\ UNCHANGED <<file_open_flag, options, loaded, results, values, tie>>

\* lines 402-414: the Save event with values['_savelocation_'] = loc
Save(loc) ==
    IF ~results_flag
    THEN UNCHANGED vars
    ELSE /\ fname' = [path |-> WithCsv(loc), header |-> << >>, lines |-> << >>]
         /\ disk' = [p \in DOMAIN disk \cup {WithCsv(loc)} |->
                        IF p = WithCsv(loc)
                        THEN print_mapping(matrix, row_ind, col_ind, donor_list, patient_list)
                        ELSE disk[p]]
         /\ running' = (RaisedAt(matrix, row_ind, col_ind, donor_list, patient_list) = {})
         /\ UNCHANGED <<file_open_flag, options, loaded, results, values, tie>>

\* ------------------------------------------------------- specifications
\* The program starts; every solver call may return any optimal answer.
InitRequest == Init /\ tie = AnyAnswer

\* One solve request: the options are set, then one file is opened (an attempt
\* that fails may be repeated), and the matching is run and saved.
Fresh == ~file_open_flag /\ ~results_flag

\* A request to the multi-way model, on every matrix up to MaxN pairs.
NextAssign ==
    \/ Fresh /\ MultiWay
    \/ Fresh /\ matching_option = "multi-way"
          /\ \E n \in 1 .. MaxN : \E c \in FullCells(n) : Open(MkFile(n, c))
    \/ Fresh /\ \E f \in {CutFile, NoFile} : Open(f)
    \/ RunMatching
    \/ \E loc \in SaveLocations : Save(loc)

SpecAssign == InitRequest /\ [][NextAssign]_vars

\* A request to the pairwise model, under each setting of its two switches.
NextExchange ==
    \/ Fresh /\ Average
    \/ Fresh /\ Zero
    \/ Fresh /\ Pairwise
    \/ Fresh /\ \E n \in 1 .. ChainN : \E c \in ExchangeCells(n) : Open(MkFile(n, c))
    \/ Fresh /\ \E f \in {CutFile, NoFile} : Open(f)
    \/ RunMatching
    \/ \E loc \in SaveLocations : Save(loc)

SpecExchange == InitRequest /\ [][NextExchange]_vars

\* The file with the rows given, each a tuple of scores.
FileOf(rows) ==
    MkFile(Len(rows), [i \in Range0(Len(rows)) |->
                          [j \in Range0(Len(rows)) |-> ToStr(rows[i + 1][j + 1])]])

\* The sample of create_test_data.py (lines 14-19), each score less 6: every
\* exchange of two pairs has the same weight.
SampleFile == FileOf(<< <<0, 1, 2>>, <<2, 0, 1>>, <<1, 2, 0>> >>)

\* Two pairs, one of them unable to give to the other; both assignments have
\* the same total.
OneWayFile == FileOf(<< <<1, 2>>, <<0, 1>> >>)

\* The files opened during one run of the program.
LoopFiles == {SampleFile, OneWayFile, CutFile, NoFile}

\* lines 294-295: the window is closed
Close ==
    /\ running' = FALSE
    /\ UNCHANGED <<file_open_flag, options, fname, loaded, results, disk, values, tie>>

\* lines 289-414: the event loop.  Each turn reads one event and runs its
\* handler; the loop ends when the window is closed or a handler raises.
Next ==
    \/ running /\ Average
    \/ running /\ Zero
    \/ running /\ Pairwise
    \/ running /\ MultiWay
    \/ running /\ \E f \in LoopFiles : Open(f)
    \/ running /\ RunMatching
    \/ running /\ \E loc \in SaveLocations : Save(loc)
    \/ running /\ Close

\* The program starts, with solvers that follow one tie-breaking rule.
InitLoop == Init /\ tie \in 0 .. MaxTie - 1

Spec == InitLoop /\ [][Next]_vars

\* ----------------------------------------------------------------- claims
\* n of the loaded matrix (matrix.shape[0])
N == Cardinality(DOMAIN matrix)

MultiWayResult == results_flag /\ matching_option = "multi-way"
PairwiseResult == results_flag /\ matching_option = "pairwise"

Unmatched == {i \in Range0(N) : col_ind[i] = -1}

\* the pairs of col_ind as edges <<i, j>>, i < j
ResultEdges == {<<i, col_ind[i]>> : i \in {k \in Range0(N) : col_ind[k] > k}}

\* C1: the assignment computed on the inverted matrix of read_csv has the
\* largest total score of all permutations of 0..n-1.
C1_AssignmentOptimal ==
    MultiWayResult =>
        \A p \in Perms(N) : Along(matrix, col_ind) >= Along(matrix, p)

\* C1 witness: a MaxN x MaxN matrix whose inverted rows were built from different
\* values of max_score, with a permutation that scores strictly less than the result.
C1_Witness ==
    /\ MultiWayResult
    /\ N = MaxN
    /\ \E i, j \in Range0(N) : inverted[i][j] # max_score - matrix[i][j]
    /\ \E p \in Perms(N) : Along(matrix, p) < Along(matrix, col_ind)

\* C2: after read_csv, score[i][j] + cost[i][j] = max_score for all i, j, with
\* cost the returned inverted matrix and max_score the returned maximum.
C2_RoundTrip ==
    file_open_flag =>
        \A i, j \in Range0(N) : matrix[i][j] + inverted[i][j] = max_score

\* C3: the pairwise result has as many pairs as a maximum-cardinality matching
\* of the exchange graph that pairwise_match built.
C3_MaxCardinality ==
    PairwiseResult =>
        Cardinality(ResultEdges) = Max({Cardinality(M) : M \in Matchings(call.G)})

\* C3 witness: a result beside which a matching with fewer pairs has strictly
\* higher total weight.
C3_Witness ==
    /\ PairwiseResult
    /\ \E M \in Matchings(call.G) :
          /\ Cardinality(M) < Cardinality(ResultEdges)
          /\ MatchingWeight2(call.G, M) > MatchingWeight2(call.G, ResultEdges)

\* C4 as stated: for an odd number of pairs, under every setting of regular and
\* zero_out, exactly one index is left unmatched (col_ind = -1).
C4_OddLeavesOne ==
    (PairwiseResult /\ N % 2 = 1) => Cardinality(Unmatched) = 1

\* C4 amended: for an odd number of pairs and zero_out false (the complete
\* graph), exactly one index is left unmatched, and its col_ind is -1.
C4_OddCompleteLeavesOne ==
    (PairwiseResult /\ N % 2 = 1 /\ ~call.zero_out) =>
        /\ Cardinality(Unmatched) = 1
        /\ \A i \in Range0(N) \ Unmatched : col_ind[i] \in Range0(N)

\* C4 witness: three pairs, zero_out false, a matrix with a zero score between
\* two pairs, one index unmatched.
C4_Witness ==
    /\ PairwiseResult /\ N = 3 /\ ~call.zero_out
    /\ \E i, j \in Range0(N) : i # j /\ matrix[i][j] = 0
    /\ Cardinality(Unmatched) = 1

\* C5: with zero_out true, the exchange graph has no edge (i, j) with
\* score[i][j] = 0 or score[j][i] = 0, and the result pairs no such i and j.
C5_NoZeroEdges ==
    (PairwiseResult /\ call.zero_out) =>
        /\ \A e \in DOMAIN call.G.weight2 :
              matrix[e[1]][e[2]] # 0 /\ matrix[e[2]][e[1]] # 0
        /\ \A i \in Range0(N) \ Unmatched :
              matrix[i][col_ind[i]] # 0 /\ matrix[col_ind[i]][i] # 0

\* C5 witness: zero_out true, a pair of indices with a zero score in one
\* direction only, and another pair matched.
C5_Witness ==
    /\ PairwiseResult /\ call.zero_out
    /\ \E i, j \in Range0(N) : i # j /\ matrix[i][j] = 0 /\ matrix[j][i] # 0
    /\ ResultEdges # {}

\* C6: the pairwise result is a valid matching: every matched i has a partner
\* col_ind[i] other than i, whose partner is i.
C6_ValidMatching ==
    PairwiseResult =>
        \A i \in Range0(N) \ Unmatched :
            /\ col_ind[i] \in Range0(N)
            /\ col_ind[i] # i
            /\ col_ind[col_ind[i]] = i

\* C6 witness: a result with two matched pairs of indices.
C6_Witness == PairwiseResult /\ Cardinality(ResultEdges) = 2

\* C7: the multi-way result is a permutation: col_ind maps 0..n-1 one-to-one
\* onto 0..n-1 and no entry is -1.
C7_Permutation ==
    MultiWayResult =>
        /\ DOMAIN col_ind = Range0(N)
        /\ \A i \in Range0(N) : col_ind[i] \in Range0(N)
        /\ \A i, j \in Range0(N) : i # j => col_ind[i] # col_ind[j]
        /\ row_ind = [i \in Range0(N) |-> i]

\* C7 witness: a multi-way result on MaxN pairs that is not the identity.
C7_Witness ==
    MultiWayResult /\ N = MaxN /\ \E i \in Range0(N) : col_ind[i] # i

\* the record the result assembly is to emit for index i
ExpectedRecord(i) ==
    IF col_ind[i] = -1 THEN <<donor_list[i], None, 0>>
    ELSE <<donor_list[i], patient_list[col_ind[i]], matrix[i][col_ind[i]]>>

\* the records and total that RUN MATCHING is to show
Shown ==
    /\ DOMAIN results_matrix = Range0(N)
    /\ \A i \in Range0(N) : results_matrix[i] = ExpectedRecord(i)
    /\ total_match_score = SumOver([i \in Range0(N) |-> results_matrix[i][3]], Range0(N))

\* the file at path p holds the records shown, the score in decimal
Written(p) ==
    /\ Len(disk[p]) = N
    /\ \A k \in 1 .. N :
          disk[p][k] = <<results_matrix[k - 1][1], results_matrix[k - 1][2],
                         ToStr(results_matrix[k - 1][3])>>

\* C8: the record shown for index i is (left label i, NONE, 0) when col_ind[i]
\* is -1 and (left label i, right label col_ind[i], score[i][col_ind[i]])
\* otherwise, and the total shown is the sum of the scores shown; a file that
\* print_mapping writes holds the records shown for the same inputs.
C8_ResultAssembly ==
    [][/\ results_flag' => Shown'
       /\ \A p \in DOMAIN disk' :
             (p \notin DOMAIN disk \/ disk[p] # disk'[p]) => Written(p)']_vars

\* C8 witness: a saved result with an unmatched index and a matched pair whose
\* two directions score differently, one of them above 0.
C8_Witness ==
    /\ results_flag /\ DOMAIN disk # {}
    /\ Unmatched # {}
    /\ \E i \in Range0(N) \ Unmatched :
          matrix[i][col_ind[i]] > 0 /\ matrix[i][col_ind[i]] # matrix[col_ind[i]][i]

\* C9: every pair i < j that is not dropped has exactly one edge, of weight
\* (score[i][j] + score[j][i]) / 2 under the regular average and that times
\* (max_score - |score[i][j] - score[j][i]|) under the modified one (weight2 is
\* twice the weight); with zero_out false every pair i < j has an edge.
C9_EdgeWeights ==
    PairwiseResult =>
        LET kept == {e \in Range0(N) \X Range0(N) :
                       /\ e[1] < e[2]
                       /\ ~(call.zero_out /\ (matrix[e[1]][e[2]] = 0 \/ matrix[e[2]][e[1]] = 0))}
        IN  /\ call.regular = average_flag /\ call.zero_out = zero_out_flag
            /\ DOMAIN call.G.weight2 = kept
            /\ ~call.zero_out => kept = {e \in Range0(N) \X Range0(N) : e[1] < e[2]}
            /\ \A e \in kept :
                  LET a == matrix[e[1]][e[2]]
                      b == matrix[e[2]][e[1]]
                  IN  call.G.weight2[e] =
                        IF call.regular THEN a + b
                        ELSE (a + b) * (max_score - Abs(a - b))

\* C9 witness: the modified average on a graph with an edge whose two scores
\* differ, the first being the smaller, and a dropped pair.
C9_Witness ==
    /\ PairwiseResult /\ ~call.regular /\ call.zero_out
    /\ \E e \in DOMAIN call.G.weight2 : matrix[e[1]][e[2]] < matrix[e[2]][e[1]]
    /\ Cardinality(DOMAIN call.G.weight2) < (N * (N - 1)) \div 2

\* C10: every entry of the inverted matrix is >= 0, after each data line that
\* read_csv has processed and at its return.
C10_CostNonNegative ==
    (file_open_flag /\ fname.path = InPath) =>
        /\ \A k \in 0 .. N : \A i, j \in Range0(N) : ReadLoop(fname, k).inverted[i][j] >= 0
        /\ \A i, j \in Range0(N) : inverted[i][j] >= 0

\* C10 witness: a file in which max_score rises at the first data line and
\* again at a later one, and a positive entry of the inverted matrix.
C10_Witness ==
    /\ file_open_flag /\ fname.path = InPath /\ N = MaxN
    /\ MaxScoreAfter(fname, 1) > 0
    /\ \E k \in 2 .. N : MaxScoreAfter(fname, k - 1) < MaxScoreAfter(fname, k)
    /\ \E i, j \in Range0(N) : inverted[i][j] > 0

\* twice the weight of the exchange of pairs i and j under the regular average,
\* read from the loaded matrix: score[i][j] + score[j][i]
BothWays(e) == matrix[e[1]][e[2]] + matrix[e[2]][e[1]]

\* the matchings of G with as many edges as any matching of G has
LargestMatchings(G) ==
    LET all == Matchings(G)
    IN  {M \in all : \A K \in all : Cardinality(K) <= Cardinality(M)}

\* C15: in the pairwise model with the regular average and zero_out false, the
\* total shown is twice the weight of the returned matching, and is at least
\* the sum of score[i][j] + score[j][i] over the pairs of every matching of
\* maximum cardinality.
C15_TotalTwiceWeight ==
    (PairwiseResult /\ call.regular /\ ~call.zero_out) =>
        /\ total_match_score = MatchingWeight2(call.G, ResultEdges)
        /\ \A M \in LargestMatchings(call.G) :
              total_match_score >= SumOver([e \in M |-> BothWays(e)], M)

\* C15 witness: MaxN or more pairs, a positive total, and another matching of
\* maximum cardinality with a smaller sum.
C15_Witness ==
    /\ PairwiseResult /\ call.regular /\ ~call.zero_out
    /\ N >= MaxN
    /\ total_match_score > 0
    /\ \E M \in LargestMatchings(call.G) :
          total_match_score > SumOver([e \in M |-> BothWays(e)], M)

\* the largest score of the loaded matrix
GlobalMax == Max({matrix[i][j] : i \in Range0(N), j \in Range0(N)})

\* C16: the max_score given to pairwise_match is the largest score of the
\* whole matrix, no |score[i][j] - score[j][i]| exceeds it, and every edge
\* weight is >= 0 under the regular and under the modified average.
C16_WeightsNonNegative ==
    PairwiseResult =>
        /\ call.max_score = GlobalMax
        /\ \A i, j \in Range0(N) : Abs(matrix[i][j] - matrix[j][i]) <= call.max_score
        /\ \A e \in DOMAIN call.G.weight2 : call.G.weight2[e] >= 0

\* C16 witness: the modified average on a matrix whose largest score stands
\* after the first line, with an edge whose two scores differ by max_score
\* (weight 0) and an edge of positive weight.
C16_Witness ==
    /\ PairwiseResult /\ ~call.regular
    /\ fname.path = InPath
    /\ MaxScoreAfter(fname, 1) < max_score
    /\ \E i, j \in Range0(N) : i # j /\ Abs(matrix[i][j] - matrix[j][i]) = max_score
    /\ \E e \in DOMAIN call.G.weight2 : call.G.weight2[e] > 0

\* ------------------------------------------------- claims: the event loop
\* the step is an _open_ event with a file name
OpenNamed == \E f \in LoopFiles : f.path # NoPath /\ Open(f)

\* the step is a RUN MATCHING event that is not refused
Run == file_open_flag /\ RunMatching

\* the results of the last run: indices, records shown and total shown
outcome == <<row_ind, col_ind, results_matrix, total_match_score>>

\* the state holds the results of a run on the data and options it has now
UpToDate == results_flag /\ ran = <<loaded, options>>

\* C11: RUN MATCHING changes neither the loaded data nor the option flags,
\* and a run on the data and options of the last run gives the same col_ind,
\* records and total again.
C11_Idempotent ==
    [][Run => /\ UNCHANGED <<loaded, options, file_open_flag>>
              /\ UpToDate => UNCHANGED outcome]_vars

\* C11 witness: results of a run on MaxN pairs that are up to date, where the
\* solver had several optimal answers with different col_ind to choose from.
C11_Witness ==
    /\ UpToDate /\ file_open_flag /\ running
    /\ N = MaxN
    /\ \E r \in Solve(matching_option, matrix, inverted, max_score,
                       average_flag, zero_out_flag) : r.col_ind # col_ind

\* the step writes the file at path p
Writes(p) == p \in DOMAIN disk' /\ (p \notin DOMAIN disk \/ disk[p] # disk'[p])

\* C12: whenever Save writes a file, the matrix and label lists given to
\* print_mapping are those from which row_ind and col_ind were computed, and
\* the file holds the records that RUN MATCHING showed last.
C12_SavedAsShown ==
    [][\A p \in DOMAIN disk' :
          Writes(p) => /\ ran[1] = loaded
                       /\ Written(p)']_vars

\* C13: the flag file_open_flag is set by an _open_ event with a file name, to
\* whether the file was read, and by no other event; while it is FALSE no
\* step changes the results (results_flag, row_ind, col_ind, what is shown),
\* whatever was loaded before; a run while it is TRUE computes from the
\* loaded data and sets results_flag.
C13_RunNeedsOpenFile ==
    [][/\ \A f \in LoopFiles : (f.path # NoPath /\ Open(f)) => file_open_flag' = Readable(f)
       /\ ~OpenNamed => UNCHANGED file_open_flag
       /\ ~file_open_flag => UNCHANGED results
       /\ Run => results_flag' /\ ran' = <<loaded, options>>]_vars

\* C13 witness: after a run on a file that was read, an open attempt on a file
\* that cannot be read has cleared the flag; the data of the earlier file are
\* still loaded.
C13_Witness ==
    /\ ~file_open_flag /\ running
    /\ fname = CutFile
    /\ results_flag /\ ran[1] = loaded /\ N = MaxN

\* C14: only a step taken with results_flag TRUE writes a file; a Save event
\* with results_flag FALSE changes nothing; results_flag is TRUE only after a
\* run, and once TRUE stays TRUE.
C14_SaveNeedsResults ==
    [][/\ (disk' # disk) => results_flag
       /\ (~results_flag /\ \E loc \in SaveLocations : Save(loc)) => UNCHANGED vars
       /\ results_flag' => ran' # NoRun
       /\ results_flag => results_flag']_vars

\* C14 witness: a file was written, and after it a file was opened that cannot
\* be read.
C14_Witness ==
    /\ results_flag /\ DOMAIN disk # {}
    /\ fname = CutFile /\ ~file_open_flag

\* the option flags are the state of the option widgets
FlagsAsSelected ==
    /\ average_flag = values.average
    /\ zero_out_flag = values.zero
    /\ matching_option = values.option

\* the step is one of the four option events
OptionEvent == Average \/ Zero \/ Pairwise \/ MultiWay

\* C17: the option flags are the state of the widgets, from the start and
\* after every event: each _average_ and _zero_ event negates its flag,
\* matching_option is the radio of the last radio event, and an option event
\* changes nothing else; a run calls the solver selected, pairwise_match with
\* the two flags as selected; the answers of the multi-way model do not
\* depend on the two flags.
C17_OptionsAsSelected ==
    /\ []FlagsAsSelected
    /\ [][/\ Average => average_flag' = ~average_flag
          /\ Zero => zero_out_flag' = ~zero_out_flag
          /\ OptionEvent => UNCHANGED <<file_open_flag, fname, loaded, results, disk, running>>
          /\ ~OptionEvent => UNCHANGED <<options, values>>
          /\ Run => /\ call'.solver = values.option
                    /\ values.option = "pairwise" =>
                          call'.regular = values.average /\ call'.zero_out = values.zero
                    /\ \A a, z \in BOOLEAN :
                          Solve("multi-way", matrix, inverted, max_score, a, z)
                            = Solve("multi-way", matrix, inverted, max_score,
                                    average_flag, zero_out_flag)]_vars

\* C17 witness: a multi-way result computed with both checkboxes changed from
\* their initial state.
C17_Witness ==
    /\ ~values.average /\ values.zero /\ values.option = "multi-way"
    /\ UpToDate /\ call.solver = "multi-way" /\ N = MaxN
====
